---- MODULE Spec2Model ----
(***************************************************************************)
(* A model of the sales-inventory repository: the till (src/till.py) and   *)
(* the reorder logic of the dashboard (src/unnamed/part_000).              *)
(*                                                                         *)
(* The till is a Streamlit script.  One user interaction is one run: the   *)
(* widget's callback (handle_scan, remove_one_from_cart, checkout), when   *)
(* it has one, and then the script body from its first line to its last.   *)
(* pc = "idle" is the page waiting for the user, pc = "script" is a run    *)
(* whose callback has returned and whose script body has yet to execute.   *)
(*                                                                         *)
(* Money is in cents.  A quantity the code computes in floating point is   *)
(* computed exactly here and rounded to the cent where the code rounds;    *)
(* an exact half cent may round either way (the binary value that          *)
(* round(x, 2) sees lies on one side of it or the other).                  *)
(***************************************************************************)
EXTENDS Integers, Sequences, FiniteSets, TLC

\* ------------------------------------------------------------------ bounds
MaxStock == 2        \* stock quantities of the inventory file: 0..MaxStock
MaxSales == 2        \* a session is followed until the ledger holds MaxSales sales
MaxSharedSales == 1  \* the same, where the inventory file is edited from outside

\* ------------------------------------------------------- the product data
Barcodes == {"A", "B"}
NoBarcode == ""
\* price column of the inventory file, in cents (R100.00 and R200.00)
Price(b) == IF b = "A" THEN 10000 ELSE 20000
NameOf(b) == IF b = "A" THEN "Product A" ELSE "Product B"
CategoryOf(b) == IF b = "A" THEN "Food" ELSE "Drinks"
MemberIds == {"", "M1"}
\* what the user may type into the discount boxes (percent; cents)
PercentChoices == {0, 10}
FixedChoices == {0, 3000}
\* what the user may type into the Qty box (min_value=1)
QtyChoices == 1..MaxStock
LineIds == 1..3

Max(a, b) == IF a >= b THEN a ELSE b

VARIABLES
  invFile,          \* INVENTORY_FILE: active rows, barcode -> stock_qty
  inventory_df,     \* the loaded data frame: barcode -> stock_qty
  PRODUCTS,         \* the dict made from it: barcode -> stock_qty
  sales,            \* SALES_FILE: the rows after the header
  cart,             \* st.session_state.cart
  member_id,        \* st.session_state.member_id
  discount,         \* st.session_state.discount
  discount_type,    \* st.session_state.discount_type
  discount_radio,   \* the "Discount Type" radio
  discount_percent, \* the "Discount (%)" box, key discount_percent
  discount_fixed,   \* the "Discount (R)" box, key discount_fixed
  selected_name,    \* the "Search product by name" select box (a barcode or "")
  pc,               \* "idle" | "script"
  call,             \* the callback of the current run, with what it was given
  msgs,             \* st.warning / st.error / st.success of the current run
  \* the dashboard (src/unnamed/part_000)
  dash_inventory_df,      \* load_inventory(): barcode -> row of inventory.xlsx
  sales_df,               \* load_sales(): the rows of sales_log.csv
  date_range,             \* the "Date range" input: <<first day, last day>>
  selected_categories,    \* the "Category" multiselect
  selected_brands,        \* the "Brand" multiselect
  active_tab,             \* st.session_state.active_tab
  inventory_with_reorder, \* barcode -> the reorder_level column after fillna
  low_stock_df,           \* the barcodes of the low-stock rows
  reorder_qty             \* the reorder_qty column of the Inventory Status page

tillVars == <<invFile, inventory_df, PRODUCTS, sales, cart, member_id, discount,
              discount_type, discount_radio, discount_percent,
              discount_fixed, selected_name, pc, call, msgs>>

dashVars == <<dash_inventory_df, sales_df, date_range, selected_categories,
              selected_brands, active_tab, inventory_with_reorder, low_stock_df,
              reorder_qty>>

vars == <<tillVars, dashVars>>

\* ----------------------------------------------------------- add_to_cart
\* index of the first cart line for which the test holds, 0 when none
FirstLine(c, Test(_)) ==
  IF \E i \in 1..Len(c) : Test(c[i])
  THEN CHOOSE i \in 1..Len(c) : Test(c[i]) /\ \A j \in 1..(i - 1) : ~Test(c[j])
  ELSE 0

\* uuid.uuid4(): an identifier no line of the cart carries
FreshLineId(c) ==
  CHOOSE i \in LineIds :
    /\ \A k \in 1..Len(c) : c[k].id # i
    /\ \A j \in LineIds : (j < i) => \E k \in 1..Len(c) : c[k].id = j

NewLine(c, barcode, qty) ==
  [id |-> FreshLineId(c), barcode |-> barcode, name |-> NameOf(barcode),
   qty |-> qty, unit_price |-> Price(barcode), category |-> CategoryOf(barcode)]

add_to_cart_line_unchecked(c, products, barcode, qty) ==
  IF barcode \notin DOMAIN products
  THEN [cart |-> c, msgs |-> {"not_found"}]
  ELSE LET current_stock == products[barcode]
           SameBarcode(l) == l.barcode = barcode
           i == FirstLine(c, SameBarcode)
       IN IF qty > current_stock
          THEN [cart |-> c, msgs |-> {"not_enough_stock"}]
          ELSE IF i # 0
          THEN [cart |-> [c EXCEPT ![i].qty = @ + qty], msgs |-> {}]
          ELSE [cart |-> Append(c, NewLine(c, barcode, qty)), msgs |-> {}]

\* add_to_cart(barcode, qty): the cart after the call and the warning it gave
add_to_cart(c, products, barcode, qty) ==
  IF barcode \notin DOMAIN products
  THEN [cart |-> c, msgs |-> {"not_found"}]
  ELSE LET current_stock == products[barcode]
           SameBarcode(l) == l.barcode = barcode
           i == FirstLine(c, SameBarcode)
       IN IF qty > current_stock
          THEN [cart |-> c, msgs |-> {"not_enough_stock"}]
          ELSE IF i # 0
          THEN IF c[i].qty + qty > current_stock
               THEN [cart |-> c, msgs |-> {"cannot_add_more"}]
               ELSE [cart |-> [c EXCEPT ![i].qty = @ + qty], msgs |-> {}]
          ELSE [cart |-> Append(c, NewLine(c, barcode, qty)), msgs |-> {}]

\* ---------------------------------------------------- remove_one_from_cart
remove_one_keeping_line(c, line_id) ==
  LET HasId(l) == l.id = line_id
      i == FirstLine(c, HasId)
  IN IF i = 0 THEN c ELSE [c EXCEPT ![i].qty = @ - 1]

remove_one_from_cart(c, line_id) ==
  LET HasId(l) == l.id = line_id
      NotId(l) == l.id # line_id
      i == FirstLine(c, HasId)
  IN IF i = 0 THEN c
     ELSE IF c[i].qty > 1 THEN [c EXCEPT ![i].qty = @ - 1]
     ELSE SelectSeq(c, NotId)

\* ------------------------------------------------------------ calc_totals
RECURSIVE SumPre(_)
SumPre(c) == IF c = <<>> THEN 0 ELSE c[1].unit_price * c[1].qty + SumPre(Tail(c))

\* calc_totals(): <<subtotal, discount_amount, total>>; a percentage amount is
\* the pair <<numerator, 100>>
calc_totals(c, d, dtype) ==
  LET subtotal == SumPre(c)
  IN IF dtype = "percent"
     THEN [subtotal |-> subtotal, discount_amount |-> <<d * subtotal, 100>>,
           total |-> <<100 * subtotal - d * subtotal, 100>>]
     ELSE [subtotal |-> subtotal, discount_amount |-> <<d, 1>>,
           total |-> <<subtotal - d, 1>>]

\* -------------------------------------------------------------- save_sale
\* round(whole - num / den, 2) of an amount in cents (num >= 0, den > 0): the
\* nearest cent; an exact half goes up or down as tieUp says
RoundCents(whole, num, den, tieUp) ==
  LET q == num \div den
      r == num % den
  IN IF 2 * r < den THEN whole - q
     ELSE IF 2 * r > den THEN whole - q - 1
     ELSE IF tieUp THEN whole - q ELSE whole - q - 1

\* the discount_share save_sale takes off a line, as <<numerator, denominator>>
DiscountShareWhole(line, c, d, dtype) ==
  LET pre == line.unit_price * line.qty
  IN IF dtype = "percent" /\ d > 0 THEN <<pre * d, 100>>
     ELSE IF dtype = "fixed" THEN <<d, 1>>
     ELSE <<0, 1>>

DiscountShare(line, c, d, dtype) ==
  LET pre == line.unit_price * line.qty
      cart_total == SumPre(c)
  IN IF dtype = "percent" /\ d > 0 THEN <<pre * d, 100>>
     ELSE IF dtype = "fixed" /\ cart_total > 0 THEN <<pre * d, cart_total>>
     ELSE <<0, 1>>

SaleRow(line, c, member, d, dtype, sale_id, ts, tieUp) ==
  LET pre == line.unit_price * line.qty
      share == DiscountShare(line, c, d, dtype)
  IN [sale_id |-> sale_id, timestamp |-> ts, membership_id |-> member,
      barcode |-> line.barcode, product_name |-> line.name,
      category |-> line.category, qty |-> line.qty,
      unit_price |-> line.unit_price,
      line_total |-> RoundCents(pre, share[1], share[2], tieUp), discount |-> d]

save_sale_id_per_line(c, member, d, dtype, sale_id, ts, ties) ==
  [i \in 1..Len(c) |->
     SaleRow(c[i], c, member, d, dtype, sale_id + i - 1, ts, ties[i])]

\* the rows save_sale(cart, member_id) appends: one per line, in cart order
save_sale(c, member, d, dtype, sale_id, ts, ties) ==
  [i \in 1..Len(c) |-> SaleRow(c[i], c, member, d, dtype, sale_id, ts, ties[i])]

\* the sales in the ledger (sale identifiers are handed out 1, 2, ...)
NumSales(ledger) ==
  IF ledger = <<>> THEN 0 ELSE ledger[Len(ledger)].sale_id

\* uuid.uuid4() for the sale: an identifier no row of the ledger carries
FreshSaleId(ledger) ==
  IF ledger = <<>> THEN 1 ELSE ledger[Len(ledger)].sale_id + 1

\* datetime.now() to the second: the second of the sale before, or a later one
ClockReadings(ledger) ==
  IF ledger = <<>> THEN {1}
  ELSE {ledger[Len(ledger)].timestamp, ledger[Len(ledger)].timestamp + 1}

\* ---------------------------------------- update_inventory_after_checkout
NewStockSwapped(current_stock, qty_sold) == qty_sold - current_stock

NewStock(current_stock, qty_sold) == Max(current_stock - qty_sold, 0)

\* the loop of update_inventory_after_checkout over the cart lines
RECURSIVE DecrementStock(_, _)
DecrementStock(c, stock) ==
  IF c = <<>> THEN stock
  ELSE LET barcode == c[1].barcode
           next == IF barcode \notin DOMAIN stock.inventory_df THEN stock
                   ELSE LET new_stock == NewStock(stock.inventory_df[barcode], c[1].qty)
                        IN [inventory_df |-> [stock.inventory_df EXCEPT ![barcode] = new_stock],
                            PRODUCTS |-> [stock.PRODUCTS EXCEPT ![barcode] = new_stock]]
       IN DecrementStock(Tail(c), next)

\* update_inventory_after_checkout(cart): the stock in memory after the loop,
\* the inventory file after to_excel (saved says whether it succeeded) and the
\* error shown when it did not
update_inventory_rolled_back(c, stock, file, saved) ==
  LET after == DecrementStock(c, stock)
  IN IF saved
     THEN [inventory_df |-> after.inventory_df, PRODUCTS |-> after.PRODUCTS,
           invFile |-> after.inventory_df, msgs |-> {}]
     ELSE [inventory_df |-> stock.inventory_df, PRODUCTS |-> stock.PRODUCTS,
           invFile |-> file, msgs |-> {"save_failed"}]

update_inventory_after_checkout(c, stock, file, saved) ==
  LET after == DecrementStock(c, stock)
  IN [inventory_df |-> after.inventory_df,
      PRODUCTS |-> after.PRODUCTS,
      invFile |-> IF saved THEN after.inventory_df ELSE file,
      msgs |-> IF saved THEN {} ELSE {"save_failed"}]

\* --------------------------------------------------------------- checkout
CheckoutCheckFirstLine(c, products) ==
  IF c = <<>> THEN "ok"
  ELSE IF c[1].barcode \notin DOMAIN products THEN "checkout_not_found"
  ELSE IF c[1].qty > products[c[1].barcode] THEN "checkout_insufficient"
  ELSE "ok"

\* the stock check of checkout: the error of the first line that fails it, or "ok"
CheckoutCheck(c, products) ==
  LET Bad(l) == l.barcode \notin DOMAIN products \/ l.qty > products[l.barcode]
      i == FirstLine(c, Bad)
  IN IF i = 0 THEN "ok"
     ELSE IF c[i].barcode \notin DOMAIN products THEN "checkout_not_found"
     ELSE "checkout_insufficient"

\* ------------------------------------------------- the script body of a run
\* Lines 16-32 load the inventory again, line 195 reads the membership box,
\* lines 205-208 add one of the product selected by name, lines 210-219 copy
\* the discount box that is shown into the session.  c is the cart and m the
\* membership box as the run's callback and the user left them.  A discount
\* box that is not shown loses its value.  The messages of a run are followed
\* until the run ends.
ScriptBody(c, m, radio, pct, fx, sel) ==
  LET products == invFile
      selected == IF sel \in DOMAIN products THEN sel ELSE NoBarcode
      added == IF selected # NoBarcode
               THEN add_to_cart(c, products, selected, 1)
               ELSE [cart |-> c, msgs |-> {}]
  IN /\ inventory_df' = invFile
     /\ PRODUCTS' = products
     /\ member_id' = m
     /\ selected_name' = selected
     /\ cart' = added.cart
     /\ msgs' = {}
     /\ discount_radio' = radio
     /\ IF radio = "Percentage"
        THEN /\ discount_percent' = pct
             /\ discount_fixed' = 0
             /\ discount' = pct
             /\ discount_type' = "percent"
        ELSE /\ discount_percent' = 0
             /\ discount_fixed' = fx
             /\ discount' = fx
             /\ discount_type' = "fixed"
     /\ pc' = "idle"
     /\ call' = <<"none">>

\* the run of a widget without a callback
PlainRun(cap, m, radio, pct, fx, sel) ==
  /\ pc = "idle"
  /\ NumSales(sales) < cap
  /\ ScriptBody(cart, m, radio, pct, fx, sel)
  /\ UNCHANGED <<invFile, sales>>
  /\ UNCHANGED dashVars

\* the script body after a callback has returned
ScriptRun ==
  /\ pc = "script"
  /\ ScriptBody(cart, member_id, discount_radio, discount_percent, discount_fixed,
                selected_name)
  /\ UNCHANGED <<invFile, sales>>
  /\ UNCHANGED dashVars

\* ------------------------------------------------------ the user's actions
\* the Membership ID box
SetMember(cap) ==
  \E m \in MemberIds :
    /\ m # member_id
    /\ PlainRun(cap, m, discount_radio, discount_percent, discount_fixed, selected_name)

\* the product search box: a product of PRODUCTS, or the empty entry
SelectName(cap) ==
  \E n \in DOMAIN PRODUCTS \cup {NoBarcode} :
    /\ n # selected_name
    /\ PlainRun(cap, member_id, discount_radio, discount_percent, discount_fixed, n)

\* the discount type radio: the box of the other type is shown, at its minimum
SetDiscountType(cap) ==
  \E r \in {"Percentage", "Fixed Amount"} :
    /\ r # discount_radio
    /\ PlainRun(cap, member_id, r, 0, 0, selected_name)

\* the discount box that is shown
SetDiscountValue(cap) ==
  \/ /\ discount_radio = "Percentage"
     /\ \E v \in PercentChoices :
          /\ v # discount_percent
          /\ PlainRun(cap, member_id, discount_radio, v, 0, selected_name)
  \/ /\ discount_radio = "Fixed Amount"
     /\ \E v \in FixedChoices :
          /\ v # discount_fixed
          /\ PlainRun(cap, member_id, discount_radio, 0, v, selected_name)

\* a widget that only shows something (the two check boxes)
Refresh(cap) ==
  PlainRun(cap, member_id, discount_radio, discount_percent, discount_fixed, selected_name)

\* handle_scan: the barcode box changed to code while the Qty box held qty.
\* The Qty box is read here and set back to 1 here and decides nothing else,
\* so a scan draws its value.
handle_scan(cap, code, qty) ==
  /\ pc = "idle"
  /\ NumSales(sales) < cap
  /\ IF qty <= 0
     THEN /\ msgs' = {"bad_quantity"}
          /\ UNCHANGED cart
     ELSE LET r == IF code # NoBarcode
                   THEN add_to_cart(cart, PRODUCTS, code, qty)
                   ELSE [cart |-> cart, msgs |-> {}]
          IN /\ cart' = r.cart
             /\ msgs' = r.msgs
  /\ call' = <<"handle_scan", code, qty>>
  /\ pc' = "script"
  /\ UNCHANGED <<invFile, inventory_df, PRODUCTS, sales, member_id, discount,
                 discount_type, discount_radio, discount_percent, discount_fixed,
                 selected_name>>
  /\ UNCHANGED dashVars

Scan(cap) == \E code \in Barcodes, qty \in QtyChoices : handle_scan(cap, code, qty)

\* a "Remove 1" button
RemoveOne(cap) ==
  \E line_id \in LineIds :
    /\ pc = "idle"
    /\ NumSales(sales) < cap
    /\ cart' = remove_one_from_cart(cart, line_id)
    /\ msgs' = {}
    /\ call' = <<"remove_one_from_cart", line_id>>
    /\ pc' = "script"
    /\ UNCHANGED <<invFile, inventory_df, PRODUCTS, sales, member_id, discount,
                   discount_type, discount_radio, discount_percent,
                   discount_fixed, selected_name>>
    /\ UNCHANGED dashVars

\* checkout(): saved says whether inventory_df.to_excel succeeds
checkout(sale_id, ts, ties, saved) ==
  LET cart_copy == cart
      check == CheckoutCheck(cart_copy, PRODUCTS)
      updated == update_inventory_after_checkout(
                   cart_copy, [inventory_df |-> inventory_df, PRODUCTS |-> PRODUCTS],
                   invFile, saved)
  IN IF check # "ok"
     THEN /\ msgs' = {check}
          /\ UNCHANGED <<invFile, inventory_df, PRODUCTS, sales, cart, member_id, discount>>
     ELSE /\ sales' = sales \o save_sale(cart_copy, member_id, discount, discount_type,
                                         sale_id, ts, ties)
          /\ inventory_df' = updated.inventory_df
          /\ PRODUCTS' = updated.PRODUCTS
          /\ invFile' = updated.invFile
          /\ cart' = <<>>
          /\ member_id' = ""
          /\ discount' = 0
          /\ msgs' = updated.msgs \cup {"sale_saved"}

\* the Checkout button, shown while the cart holds a line
Checkout(cap) ==
  /\ pc = "idle"
  /\ cart # <<>>
  /\ NumSales(sales) < cap
  /\ \E ts \in ClockReadings(sales), ties \in [1..Len(cart) -> BOOLEAN], saved \in BOOLEAN :
       /\ checkout(FreshSaleId(sales), ts, ties, saved)
       /\ call' = <<"checkout", saved>>
  /\ pc' = "script"
  /\ UNCHANGED <<discount_type, discount_radio, discount_percent,
                 discount_fixed, selected_name>>
  /\ UNCHANGED dashVars

\* ------------------------------------------- the inventory file, from outside
\* The workbook is shared storage: stock is counted, received or sold elsewhere,
\* a product is withdrawn or listed.  The till sees it at its next run, which
\* is taken to come before the user's next action.
InventoryEdited(cap) ==
  /\ pc = "idle"
  /\ NumSales(sales) < cap
  /\ \E b \in Barcodes :
       \/ \E s \in 0..MaxStock :
            /\ (b \in DOMAIN invFile) => invFile[b] # s
            /\ invFile' = [x \in DOMAIN invFile \cup {b} |-> IF x = b THEN s ELSE invFile[x]]
       \/ /\ b \in DOMAIN invFile
          /\ invFile' = [x \in DOMAIN invFile \ {b} |-> invFile[x]]
  /\ pc' = "script"
  /\ call' = <<"none">>
  /\ msgs' = {}
  /\ UNCHANGED <<inventory_df, PRODUCTS, sales, cart, member_id, discount,
                 discount_type, discount_radio, discount_percent,
                 discount_fixed, selected_name>>
  /\ UNCHANGED dashVars

\* -------------------------------------------------------- the specification
\* the dashboard is a program of its own: it is not open while the till is
\* followed
DashClosed ==
  /\ dash_inventory_df = <<>>
  /\ sales_df = <<>>
  /\ date_range = <<>>
  /\ selected_categories = {}
  /\ selected_brands = {}
  /\ active_tab = ""
  /\ inventory_with_reorder = <<>>
  /\ low_stock_df = {}
  /\ reorder_qty = [b \in {} |-> 0]

\* the first run of a session, on an inventory whose stock is not negative
Init ==
  /\ invFile \in [Barcodes -> 0..MaxStock]
  /\ inventory_df = invFile
  /\ PRODUCTS = invFile
  /\ sales = <<>>
  /\ cart = <<>>
  /\ member_id = ""
  /\ discount = 0
  /\ discount_type = "percent"
  /\ discount_radio = "Percentage"
  /\ discount_percent = 0
  /\ discount_fixed = 0
  /\ selected_name = NoBarcode
  /\ pc = "idle"
  /\ call = <<"none">>
  /\ msgs = {}
  /\ DashClosed

\* the runs of a session that is followed until the ledger holds cap sales
Session(cap) ==
  \/ Scan(cap)
  \/ RemoveOne(cap)
  \/ Checkout(cap)
  \/ ScriptRun
  \/ SetMember(cap)
  \/ SelectName(cap)
  \/ SetDiscountType(cap)
  \/ SetDiscountValue(cap)
  \/ Refresh(cap)

Next == Session(MaxSales)

\* one till session, the only writer of the two files
Spec == Init /\ [][Next]_vars

\* one till session on an inventory file that is also edited from outside
NextShared ==
  \/ Session(MaxSharedSales)
  \/ InventoryEdited(MaxSharedSales)

SpecShared == Init /\ [][NextShared]_vars

\* ------------------------------------------------------- a sale at checkout
\* what the "Discount (R)" box may hold when Checkout is clicked, in cents
\* (min_value=0.0; the box takes any amount typed into it)
SaleFixedChoices == {5, 1000, 3000, 5000}

\* the cart after the scans of a sequence of <<barcode, qty>> pairs
RECURSIVE CartOfScans(_, _)
CartOfScans(scans, products) ==
  IF scans = <<>> THEN <<>>
  ELSE add_to_cart(CartOfScans(SubSeq(scans, 1, Len(scans) - 1), products),
                   products, scans[Len(scans)][1], scans[Len(scans)][2]).cart

ScanSequences ==
  UNION {[1..n -> Barcodes \X QtyChoices] : n \in 1..Cardinality(Barcodes)}

\* the page with a cart scanned and a discount typed, before Checkout is clicked
InitSale ==
  /\ invFile \in [Barcodes -> 0..MaxStock]
  /\ inventory_df = invFile
  /\ PRODUCTS = invFile
  /\ sales = <<>>
  /\ \E scans \in ScanSequences : cart = CartOfScans(scans, invFile)
  /\ cart # <<>>
  /\ member_id \in MemberIds
  /\ discount_radio \in {"Percentage", "Fixed Amount"}
  /\ IF discount_radio = "Percentage"
     THEN /\ discount_percent \in PercentChoices
          /\ discount_fixed = 0
          /\ discount = discount_percent
          /\ discount_type = "percent"
     ELSE /\ discount_percent = 0
          /\ discount_fixed \in SaleFixedChoices
          /\ discount = discount_fixed
          /\ discount_type = "fixed"
  /\ selected_name = NoBarcode
  /\ pc = "idle"
  /\ call = <<"none">>
  /\ msgs = {}
  /\ DashClosed

NextSale ==
  \/ Checkout(MaxSales)
  \/ ScriptRun

\* the checkout of one cart, over the carts and discounts of InitSale
SpecSale == InitSale /\ [][NextSale]_vars

\* ============================================================ the dashboard
\* The dashboard is a Streamlit script too: every run loads the two files,
\* reads the sidebar filters and computes everything again.  A date is a day
\* number and a month has 30 days; a cell that may be missing is NaN or <<v>>.
MaxRows == 2              \* rows of the sales log
DaysBack == 90            \* min_date = max_date - timedelta(days=90)
MinReorderLevel == 5      \* max(int(np.ceil(x * 2)), 5)
DefaultReorderLevel == 5  \* .fillna(5)
MonthsOfCover == 2        \* x * 2 and 2 * avg_monthly_sales

NaN == <<>>
BrandOf(b) == IF b = "A" THEN "Acme" ELSE "Bolt"
\* the stock_qty and reorder_level cells of the inventory snapshots
DashStocks == {3, 10}
ExplicitLevels == {NaN, <<8>>}
\* the days and quantities of the rows of the sales log
SaleDays == {1, 100, 130}
SaleQtys == {1, 4, 6}
tabs == {"Summary KPIs", "Inventory Status"}

\* timestamp.dt.to_period('M')
Month(day) == (day - 1) \div 30 + 1
fillna(x, y) == IF x = NaN THEN y ELSE x
\* Series.isin: a missing cell is in no selection
isin(x, S) == x # NaN /\ x[1] \in S
\* np.ceil of n / d, for n >= 0 and d > 0
CeilDiv(n, d) == (n + d - 1) \div d

InventorySnapshots ==
  {[b \in Barcodes |-> [stock_qty |-> f[b][1], reorder_level |-> f[b][2],
                        category |-> CategoryOf(b), brand |-> BrandOf(b)]] :
     f \in [Barcodes -> DashStocks \X ExplicitLevels]}

LedgerRows == [barcode : Barcodes, timestamp : SaleDays, qty : SaleQtys]

\* the till writes the log in the order of time; the dashboard needs one row
\* at least (max_date)
Ledgers ==
  {l \in UNION {[1..n -> LedgerRows] : n \in 1..MaxRows} :
     \A i \in 1..Len(l) - 1 : l[i].timestamp <= l[i + 1].timestamp}

\* sales_df.merge(inventory_df[...], on='barcode', how='left')
sales_merged(ledger, inv) ==
  [i \in 1..Len(ledger) |->
     LET b == ledger[i].barcode
     IN [barcode |-> b, timestamp |-> ledger[i].timestamp, qty |-> ledger[i].qty,
         category |-> IF b \in DOMAIN inv THEN <<inv[b].category>> ELSE NaN,
         brand |-> IF b \in DOMAIN inv THEN <<inv[b].brand>> ELSE NaN]]

max_date(merged) ==
  CHOOSE d \in {merged[i].timestamp : i \in 1..Len(merged)} :
    \A i \in 1..Len(merged) : merged[i].timestamp <= d

min_date(merged) == max_date(merged) - DaysBack

all_categories(merged) ==
  {merged[i].category[1] : i \in {j \in 1..Len(merged) : merged[j].category # NaN}}

all_brands(merged) ==
  {merged[i].brand[1] : i \in {j \in 1..Len(merged) : merged[j].brand # NaN}}

sales_filtered(merged, dr, cats, brands) ==
  LET Kept(r) == /\ r.timestamp >= dr[1]
                 /\ r.timestamp <= dr[2]
                 /\ isin(r.category, cats)
                 /\ isin(r.brand, brands)
  IN SelectSeq(merged, Kept)

RECURSIVE SumQty(_, _)
SumQty(rows, b) ==
  IF rows = <<>> THEN 0
  ELSE (IF rows[1].barcode = b THEN rows[1].qty ELSE 0) + SumQty(Tail(rows), b)

\* groupby(['barcode', 'month'])['qty'].sum().groupby('barcode').mean(): for
\* each barcode with a row, <<units sold, months with a sale>>, the mean being
\* the first over the second
monthly_sales_per_product(rows) ==
  [b \in {rows[i].barcode : i \in 1..Len(rows)} |->
     <<SumQty(rows, b),
       Cardinality({Month(rows[i].timestamp) :
                      i \in {j \in 1..Len(rows) : rows[j].barcode = b}})>>]

\* the dynamic_reorder_level column
reorder_levels(msp) ==
  [b \in DOMAIN msp |->
     Max(CeilDiv(msp[b][1] * MonthsOfCover, msp[b][2]), MinReorderLevel)]

\* inventory_df.merge(reorder_levels, how='left') and the two fillna
InventoryWithReorder(inv, levels) ==
  [b \in DOMAIN inv |->
     LET dynamic_reorder_level == IF b \in DOMAIN levels THEN <<levels[b]>> ELSE NaN
     IN fillna(fillna(inv[b].reorder_level, dynamic_reorder_level),
               <<DefaultReorderLevel>>)[1]]

LowStock(inv, levels) == {b \in DOMAIN inv : inv[b].stock_qty <= levels[b]}

\* (2 * avg_monthly_sales - stock_qty).apply(lambda x: max(x, 0)).astype(int)
ReorderQty(inv, msp, low) ==
  [b \in low |->
     LET avg == IF b \in DOMAIN msp THEN msp[b] ELSE <<0, 1>>
         num == MonthsOfCover * avg[1] - inv[b].stock_qty * avg[2]
     IN IF num <= 0 THEN 0 ELSE num \div avg[2]]

\* what one run of the script shows, for the files and the widgets it reads
DashOutputs(inv, ledger, dr, cats, brands, tab) ==
  LET filtered == sales_filtered(sales_merged(ledger, inv), dr, cats, brands)
      msp == monthly_sales_per_product(filtered)
      levels == InventoryWithReorder(inv, reorder_levels(msp))
      low == LowStock(inv, levels)
  IN [inventory_with_reorder |-> levels, low_stock_df |-> low,
      reorder_qty |-> IF tab = "Inventory Status" /\ low # {}
                      THEN ReorderQty(inv, msp, low)
                      ELSE [b \in {} |-> 0]]

DashRun(dr, cats, brands, tab) ==
  LET out == DashOutputs(dash_inventory_df, sales_df, dr, cats, brands, tab)
  IN /\ date_range' = dr
     /\ selected_categories' = cats
     /\ selected_brands' = brands
     /\ active_tab' = tab
     /\ inventory_with_reorder' = out.inventory_with_reorder
     /\ low_stock_df' = out.low_stock_df
     /\ reorder_qty' = out.reorder_qty
     /\ UNCHANGED <<dash_inventory_df, sales_df>>
     /\ UNCHANGED tillVars

\* the "Date range" input takes days from min_date to max_date
SetDateRange ==
  LET merged == sales_merged(sales_df, dash_inventory_df)
      days == {d \in SaleDays \cup {min_date(merged)} :
                 d >= min_date(merged) /\ d <= max_date(merged)}
  IN \E lo \in days, hi \in days :
       /\ lo <= hi
       /\ <<lo, hi>> # date_range
       /\ DashRun(<<lo, hi>>, selected_categories, selected_brands, active_tab)

SetCategories ==
  \E S \in SUBSET all_categories(sales_merged(sales_df, dash_inventory_df)) :
    /\ S # selected_categories
    /\ DashRun(date_range, S, selected_brands, active_tab)

SetBrands ==
  \E S \in SUBSET all_brands(sales_merged(sales_df, dash_inventory_df)) :
    /\ S # selected_brands
    /\ DashRun(date_range, selected_categories, S, active_tab)

\* a button of the "Navigate" row
SelectTab ==
  \E t \in tabs :
    /\ t # active_tab
    /\ DashRun(date_range, selected_categories, selected_brands, t)

\* the till is a program of its own: it is not open while the dashboard is
\* followed
TillClosed ==
  /\ invFile = <<>>
  /\ inventory_df = <<>>
  /\ PRODUCTS = <<>>
  /\ sales = <<>>
  /\ cart = <<>>
  /\ member_id = ""
  /\ discount = 0
  /\ discount_type = "percent"
  /\ discount_radio = "Percentage"
  /\ discount_percent = 0
  /\ discount_fixed = 0
  /\ selected_name = NoBarcode
  /\ pc = "closed"
  /\ call = <<"none">>
  /\ msgs = {}

\* the first run on a snapshot of the two files: every filter at its default
InitDash ==
  /\ TillClosed
  /\ dash_inventory_df \in InventorySnapshots
  /\ sales_df \in Ledgers
  /\ LET merged == sales_merged(sales_df, dash_inventory_df)
         out == DashOutputs(dash_inventory_df, sales_df,
                            <<min_date(merged), max_date(merged)>>,
                            all_categories(merged), all_brands(merged),
                            "Summary KPIs")
     IN /\ date_range = <<min_date(merged), max_date(merged)>>
        /\ selected_categories = all_categories(merged)
        /\ selected_brands = all_brands(merged)
        /\ active_tab = "Summary KPIs"
        /\ inventory_with_reorder = out.inventory_with_reorder
        /\ low_stock_df = out.low_stock_df
        /\ reorder_qty = out.reorder_qty

NextDash ==
  \/ SetDateRange
  \/ SetCategories
  \/ SetBrands
  \/ SelectTab

\* the dashboard over one snapshot of the inventory and the sales log
SpecDash == InitDash /\ [][NextDash]_vars

\* ================================================================ the claims
\* the cart lines that the stock check of checkout refuses
Offending(c, products) ==
  {i \in 1..Len(c) : c[i].barcode \notin DOMAIN products \/ c[i].qty > products[c[i].barcode]}

CheckoutStep == pc = "idle" /\ pc' = "script" /\ call'[1] = "checkout"

\* C1: in one till session that starts on an inventory without negative stock,
\* no stock quantity is ever negative: not in PRODUCTS, not in inventory_df, not
\* in the inventory file.
C1_StockNeverNegative ==
  /\ \A b \in DOMAIN PRODUCTS : PRODUCTS[b] >= 0
  /\ \A b \in DOMAIN inventory_df : inventory_df[b] >= 0
  /\ \A b \in DOMAIN invFile : invFile[b] >= 0

\* two checkouts have sold a product out
C1_Witness ==
  /\ NumSales(sales) = 2
  /\ \E b \in DOMAIN PRODUCTS :
       /\ PRODUCTS[b] = 0 /\ inventory_df[b] = 0 /\ invFile[b] = 0
       /\ sales[1].barcode = b /\ sales[Len(sales)].barcode = b

\* C2: a checkout called while a cart line asks for more than the stock of its
\* product, or for a product that is no longer in the inventory, appends no
\* ledger row, changes no stock and leaves cart, discount and membership id as
\* they were, whichever line it is.
C2_CheckoutAllOrNothing ==
  [][(CheckoutStep /\ Offending(cart, PRODUCTS) # {})
       => /\ sales' = sales
          /\ PRODUCTS' = PRODUCTS
          /\ inventory_df' = inventory_df
          /\ invFile' = invFile
          /\ cart' = cart
          /\ discount' = discount
          /\ member_id' = member_id]_vars

\* a checkout was refused for the second of two lines, with a discount and a
\* membership id set
C2_Witness ==
  /\ pc = "script" /\ call[1] = "checkout"
  /\ msgs \in {{"checkout_insufficient"}, {"checkout_not_found"}}
  /\ Len(cart) = 2
  /\ Offending(cart, PRODUCTS) = {2}
  /\ discount > 0
  /\ member_id # ""
  /\ sales = <<>>

\* what add_to_cart(b, q) may make of cart c, given the stock in products
AddOutcome(c, c2, products, b, q) ==
  LET lines == {i \in 1..Len(c) : c[i].barcode = b}
  IN IF q > products[b] \/ \E i \in lines : c[i].qty + q > products[b]
     THEN c2 = c
     ELSE IF lines # {}
     THEN /\ Len(c2) = Len(c)
          /\ \A i \in 1..Len(c) :
               c2[i] = IF i \in lines THEN [c[i] EXCEPT !.qty = @ + q] ELSE c[i]
     ELSE /\ Len(c2) = Len(c) + 1
          /\ \A i \in 1..Len(c) : c2[i] = c[i]
          /\ c2[Len(c2)].barcode = b
          /\ c2[Len(c2)].qty = q
          /\ \A i \in 1..Len(c) : c[i].id # c2[Len(c2)].id

AddRefused(c, products, b, q) ==
  q > products[b] \/ \E i \in 1..Len(c) : c[i].barcode = b /\ c[i].qty + q > products[b]

\* C3: add_to_cart(barcode, qty) warns and leaves the cart as it was when qty
\* exceeds the stock of the product, or when the cart already holds a line of
\* the product and its quantity + qty exceeds the stock; otherwise it raises
\* that line's quantity by qty, or appends one line with quantity qty.  Both
\* callers are covered: handle_scan, and the product search box of the script.
C3_AddToCart ==
  [][/\ (pc = "idle" /\ pc' = "script" /\ call'[1] = "handle_scan"
           /\ call'[2] \in DOMAIN PRODUCTS)
        => /\ AddOutcome(cart, cart', PRODUCTS, call'[2], call'[3])
           /\ AddRefused(cart, PRODUCTS, call'[2], call'[3]) <=> (msgs' # {})
     /\ (pc' = "idle" /\ selected_name' # NoBarcode)
        => AddOutcome(cart, cart', PRODUCTS', selected_name', 1)]_vars

\* a scan was refused because the line in the cart already holds the stock,
\* though the scanned quantity alone is in stock
C3_Witness ==
  /\ pc = "script" /\ call[1] = "handle_scan"
  /\ msgs = {"cannot_add_more"}
  /\ Len(cart) = 2
  /\ call[3] <= PRODUCTS[call[2]]

\* C4: once a checkout has succeeded and its run has ended, the session holds
\* no discount: the next sale starts without the discount of the sale before.
C4_NoDiscountCarriedOver ==
  [][(pc = "script" /\ call[1] = "checkout" /\ "sale_saved" \in msgs /\ pc' = "idle")
       => discount' = 0]_vars

RECURSIVE SumLineTotals(_)
SumLineTotals(rows) ==
  IF rows = <<>> THEN 0 ELSE rows[1].line_total + SumLineTotals(Tail(rows))

Abs(x) == IF x >= 0 THEN x ELSE -x

\* the rows a checkout step appends to the ledger
NewRows == SubSeq(sales', Len(sales) + 1, Len(sales'))

\* C5: at every checkout with a fixed discount and a cart subtotal > 0, the
\* line_total values persisted for the sale add up to subtotal - discount
\* within one cent per cart line; lines of 100.00 and 200.00 with a fixed
\* discount of 30.00 are persisted as 90.00 and 180.00, and a single line of
\* 200.00 with a fixed discount of 50.00 as 150.00.
C5_FixedDiscountAllocation ==
  [][(CheckoutStep /\ "sale_saved" \in msgs' /\ discount_type = "fixed"
        /\ calc_totals(cart, discount, discount_type).subtotal > 0)
       => LET totals == calc_totals(cart, discount, discount_type)
              pre(i) == cart[i].unit_price * cart[i].qty
          IN /\ Len(NewRows) = Len(cart)
             /\ Abs(SumLineTotals(NewRows) - totals.total[1]) <= Len(cart)
             /\ (Len(cart) = 2 /\ pre(1) = 10000 /\ pre(2) = 20000 /\ discount = 3000)
                  => (NewRows[1].line_total = 9000 /\ NewRows[2].line_total = 18000)
             /\ (Len(cart) = 1 /\ pre(1) = 20000 /\ discount = 5000)
                  => NewRows[1].line_total = 15000]_vars

\* a sale of two lines of 200.00 with a fixed discount of 0.05: each share is
\* half a cent over, both line totals are persisted as 199.97, and the sum is
\* one cent off subtotal - discount
C5_Witness ==
  /\ pc = "script" /\ call[1] = "checkout" /\ "sale_saved" \in msgs
  /\ discount_type = "fixed"
  /\ Len(sales) = 2
  /\ sales[1].discount = 5
  /\ sales[1].unit_price * sales[1].qty = sales[2].unit_price * sales[2].qty
  /\ sales[1].line_total + sales[2].line_total
       = sales[1].unit_price * sales[1].qty + sales[2].unit_price * sales[2].qty - 5 - 1

\* the dashboard has run on a snapshot
DashShown == dash_inventory_df # <<>> /\ sales_df # <<>>

\* C6: the reorder level and the low-stock flag the dashboard shows for every
\* product are those computed from all rows of the sales log, whatever the
\* date-range, category and brand filters are set to.
C6_ReorderFromFullLedger ==
  DashShown =>
    LET full == sales_merged(sales_df, dash_inventory_df)
        levels == InventoryWithReorder(dash_inventory_df,
                    reorder_levels(monthly_sales_per_product(full)))
    IN /\ inventory_with_reorder = levels
       /\ low_stock_df = LowStock(dash_inventory_df, levels)

\* the quantities of product b sold in each month in which it has a row
SoldInMonth(rows, b, m) ==
  LET Of(r) == r.barcode = b /\ Month(r.timestamp) = m
  IN SumQty(SelectSeq(rows, Of), b)

MonthsSold(rows, b) ==
  {Month(rows[i].timestamp) : i \in {j \in 1..Len(rows) : rows[j].barcode = b}}

\* the effective reorder level of the claim, from the sales history rows
EffectiveLevel(inv, rows, b) ==
  IF inv[b].reorder_level # NaN THEN inv[b].reorder_level[1]
  ELSE IF MonthsSold(rows, b) # {}
       THEN Max(CeilDiv(2 * SumQty(rows, b), Cardinality(MonthsSold(rows, b))), 5)
       ELSE 5

\* C7: for every product the level shown is the explicit reorder_level when
\* it is set, else max(ceil(2 * average monthly sales), 5) when the product
\* has sales history, else 5; the product is listed as low stock exactly when
\* its stock is at or below that level; a product with stock 10, no explicit
\* level and monthly sales of 4 and 6 has level 10, is low stock and gets
\* reorder quantity 0.
C7_EffectiveReorderLevel ==
  DashShown =>
    \A b \in DOMAIN dash_inventory_df :
      LET level == EffectiveLevel(dash_inventory_df, sales_df, b)
          months == MonthsSold(sales_df, b)
      IN /\ inventory_with_reorder[b] = level
         /\ (b \in low_stock_df) <=> (dash_inventory_df[b].stock_qty <= level)
         /\ ( /\ dash_inventory_df[b].stock_qty = 10
              /\ dash_inventory_df[b].reorder_level = NaN
              /\ Cardinality(months) = 2
              /\ \E m1 \in months, m2 \in months :
                   /\ SoldInMonth(sales_df, b, m1) = 4
                   /\ SoldInMonth(sales_df, b, m2) = 6 )
            => /\ inventory_with_reorder[b] = 10
               /\ b \in low_stock_df
               /\ (active_tab = "Inventory Status" => reorder_qty[b] = 0)

RowsOfCart(ledger, ledger2, c, d) ==
  /\ Len(ledger2) = Len(ledger) + Len(c)
  /\ \A i \in 1..Len(c) :
       LET row == ledger2[Len(ledger) + i]
       IN /\ row.barcode = c[i].barcode
          /\ row.qty = c[i].qty
          /\ row.unit_price = c[i].unit_price
          /\ row.discount = d
          /\ row.sale_id = ledger2[Len(ledger) + 1].sale_id
          /\ row.timestamp = ledger2[Len(ledger) + 1].timestamp
          /\ \A j \in 1..Len(ledger) : ledger[j].sale_id # row.sale_id

IsPrefix(s1, s2) ==
  /\ Len(s1) <= Len(s2)
  /\ \A i \in 1..Len(s1) : s2[i] = s1[i]

\* C8: the ledger only grows, and only by checkout: every step leaves the rows
\* already written where they were, and a checkout that passes the stock check
\* appends one row per cart line, in cart order, all with one sale identifier
\* that no earlier row carries, one timestamp and the discount of the cart.
C8_LedgerAppendOnly ==
  [][/\ IsPrefix(sales, sales')
     /\ (sales' # sales) => (CheckoutStep /\ Offending(cart, PRODUCTS) = {})
     /\ (CheckoutStep /\ Offending(cart, PRODUCTS) = {})
        => RowsOfCart(sales, sales', cart, discount)]_vars

\* a sale of two lines under a discount, and a later sale, are in the ledger
C8_Witness ==
  /\ Len(sales) = 3
  /\ sales[1].sale_id = sales[2].sale_id
  /\ sales[3].sale_id # sales[1].sale_id
  /\ sales[1].discount > 0
  /\ sales[1].barcode # sales[2].barcode

RemoveOutcome(c, c2, line_id) ==
  LET lines == {i \in 1..Len(c) : c[i].id = line_id}
  IN IF lines = {} THEN c2 = c
     ELSE LET i == CHOOSE i \in lines : TRUE
          IN IF c[i].qty - 1 = 0
             THEN /\ Len(c2) = Len(c) - 1
                  /\ \A j \in 1..Len(c2) : c2[j] = IF j < i THEN c[j] ELSE c[j + 1]
             ELSE /\ Len(c2) = Len(c)
                  /\ \A j \in 1..Len(c) :
                       c2[j] = IF j = i THEN [c[j] EXCEPT !.qty = @ - 1] ELSE c[j]

\* C10: remove_one_from_cart(line_id) takes 1 off the quantity of the line
\* with that identifier and deletes the line when that leaves 0, the other
\* lines and their order staying as they were, and does nothing when no line
\* has the identifier; so every line of the cart has a quantity of at least 1.
C10_RemoveOne ==
  /\ [](\A i \in 1..Len(cart) : cart[i].qty >= 1)
  /\ [][(pc = "idle" /\ pc' = "script" /\ call'[1] = "remove_one_from_cart")
          => RemoveOutcome(cart, cart', call'[2])]_vars

\* the first of two lines was removed at quantity 1 and the second is left
C10_Witness ==
  /\ pc = "script" /\ call = <<"remove_one_from_cart", 1>>
  /\ Len(cart) = 1
  /\ cart[1].id = 2

\* the units of product b in the rows of the ledger
RECURSIVE SoldQty(_, _)
SoldQty(ledger, b) ==
  IF ledger = <<>> THEN 0
  ELSE (IF ledger[1].barcode = b THEN ledger[1].qty ELSE 0) + SoldQty(Tail(ledger), b)

\* C11: in one till session, for every product the stock in memory plus the
\* units of it in the ledger rows of the session is the stock at session
\* start: the ledger is empty at the start, and no step changes that sum
\* (adding to the cart and removing from it change neither part; a checkout
\* that succeeds moves the sold units from the one to the other).
C11_StockConservation ==
  [][\A b \in Barcodes :
       /\ PRODUCTS'[b] + SoldQty(sales', b) = PRODUCTS[b] + SoldQty(sales, b)
       /\ inventory_df'[b] + SoldQty(sales', b) = inventory_df[b] + SoldQty(sales, b)]_vars

====
